---- MODULE Spec2Model ----
\* telepager: the incremental fetch engine (Fetcher) and the record-to-page
\* pipeline (filter_lines_by_quality, page builders, RecordManager) of
\* src/telepager/manager.py, driven by the source and builder of
\* src/examples/filtered.py.
\*
\* Coroutines are modelled between their suspension points: one action is the
\* code a task runs from one `await` that may suspend to the next.
EXTENDS Integers, Sequences, FiniteSets, TLC

\* ------------------------------------------------------------------ bounds
NumTasks == 2      \* concurrent callers (asyncio tasks) of one fetcher
MaxStep == 3       \* largest incremental_fetching_step tried
MaxItems == 3      \* largest number of items the source holds
PageSize == 2      \* chunk size of the page-sizing strategy
MaxCalls == 2      \* the count of fetch_more calls saturates above this
MaxSuspended == 1  \* build_page_book calls suspended inside a builder at a time
MaxLen == 3        \* longest list a function of the pipeline is applied to on its own
MaxRange == 5      \* the example source is cut to 1..N for N up to this

Tasks == 1..NumTasks

\* ------------------------------------------------------- values and flags
None == "None"
NotImplemented == "NotImplemented"

ANY_QUALITY == 0
ANY_ORDERING == 1

EVEN == 2
UNEVEN == 4
FROM_HIGHEST == 2
FROM_LOWEST == 4

Min(a, b) == IF a < b THEN a ELSE b

RECURSIVE BitAnd(_, _)
BitAnd(a, b) ==
    IF a = 0 \/ b = 0 THEN 0
    ELSE (IF a % 2 = 1 /\ b % 2 = 1 THEN 1 ELSE 0) + 2 * BitAnd(a \div 2, b \div 2)

\* The flag types a caller can pass as quality_t (None: no flag type).
FlagTypes == {"Filters"}
FlagMask(T) == IF T = "Filters" THEN EVEN + UNEVEN ELSE 0

\* quality_t(x) with boundary=STRICT: ValueError unless every bit of x is a
\* member's bit.
FlagValid(T, x) == x >= 0 /\ BitAnd(x, FlagMask(T)) = x

\* `asked in quality_of_line` with any common bit counted as containment
flag_overlaps(whole, part) == BitAnd(part, whole) # 0

\* `asked in quality_of_line` of enum.Flag: every bit of asked is set.
FlagContains(whole, part) == BitAnd(part, whole) = part

\* ------------------------------------------------------------------- text
Digit(d) == <<"0", "1", "2", "3", "4", "5", "6", "7", "8", "9">>[d + 1]

\* str(i) for i >= 0, as the sequence of its characters.
RECURSIVE Str(_)
Str(n) == IF n < 10 THEN <<Digit(n)>> ELSE Str(n \div 10) \o <<Digit(n % 10)>>

\* sep.join(texts)
RECURSIVE Join(_, _)
Join(sep, texts) ==
    IF texts = <<>> THEN <<>>
    ELSE IF Len(texts) = 1 THEN texts[1]
    ELSE texts[1] \o sep \o Join(sep, Tail(texts))

NL == <<"\n">>

\* ----------------------------------------------------------------- source
\* filtering_fetcher: Line(text=str(i), quality=EVEN|UNEVEN, meta=i).
Line(i) ==
    [text |-> Str(i), quality |-> IF i % 2 = 0 THEN EVEN ELSE UNEVEN, meta |-> i]

\* The exceptions an anext() of the source can raise, by what the source
\* does:
\*   StopAsyncIteration  the end of the sequence;
\*   RuntimeError        the reentrancy violation of an async generator
\*                       ("anext(): asynchronous generator is already running");
\*   SourceRuntimeError  a failure of the source's own body whose class is
\*                       RuntimeError or a subclass of it (NotImplementedError,
\*                       RecursionError, a driver's RuntimeError, the
\*                       RuntimeError that replaces a StopIteration raised in a
\*                       generator body);
\*   OtherError          a failure of the source's own body whose class is
\*                       neither StopAsyncIteration nor a RuntimeError
\*                       (ValueError, OSError, ...).
StopAsyncIteration == "StopAsyncIteration"
RuntimeError == "RuntimeError"
SourceRuntimeError == "SourceRuntimeError"
OtherError == "OtherError"

SourceKinds == {StopAsyncIteration, RuntimeError, SourceRuntimeError, OtherError}

\* The two termination signals of a source, and its failures.
Signals == {StopAsyncIteration, RuntimeError}
Failures == SourceKinds \ Signals

\* isinstance(e, RuntimeError)
IsRuntimeError(e) == e \in {RuntimeError, SourceRuntimeError}

\* A source yields Line(1) .. Line(n). A source of kind StopAsyncIteration only
\* ever ends. A source of another kind raises that exception once, when asked
\* for item sigAt + 1: a failure of the body closes the generator (every later
\* anext raises StopAsyncIteration, so n = sigAt). The reentrancy RuntimeError
\* is raised because a consumer outside the fetcher asked the generator for an
\* item just before and is still waiting for it; the generator holds the items
\* up to n = MaxItems.
Sources ==
    { [n |-> n, kind |-> k, sigAt |-> a] :
        n \in 0..MaxItems, k \in SourceKinds, a \in 0..MaxItems }

SourceOk(s) ==
    /\ s.sigAt <= s.n
    /\ s.kind \in {StopAsyncIteration} \cup Failures => s.sigAt = s.n
    /\ s.kind = RuntimeError => s.n = MaxItems

\* ---------------------------------------------------------------- builders
\* NaivePageBuilder, FormattingPageBuilder, the example's SortingPageBuilder,
\* and "Awaiting": a user-defined SortingPageBuilder whose order_by and
\* build_page await (suspend) before they do the work of the base class.
Builders == {"Naive", "Formatting", "Sorting", "Awaiting"}
Reference == {"Naive", "Formatting", "Sorting"}

Sorts(b) == b \in {"Sorting", "Awaiting"}
Formats(b) == b = "Formatting"
Suspends(b) == b = "Awaiting"

\* base_text of the builders, "Result is: " (default_page_builder); the
\* Formatting builder's template is "Result is: {x}" with
\* formatting_template_name "x".
BaseText == <<"R", "e", "s", "u", "l", "t", " ", "i", "s", ":", " ">>


\* ------------------------------------------- pure parts of the pipeline
\* Lines 59-66, the loop of filter_lines_by_quality over the lines left:
\* quality_t(line.quality), then quality_t(asked_quality), either of which may
\* raise ValueError (`continue`), then the containment test.
RECURSIVE filter_loop(_, _, _, _)
filter_loop(rest, asked_quality, quality_t, result) ==
    IF rest = <<>> THEN result
    ELSE LET line == Head(rest) IN
         IF ~FlagValid(quality_t, line.quality)
         THEN filter_loop(Tail(rest), asked_quality, quality_t, result)
         ELSE IF ~FlagValid(quality_t, asked_quality)
         THEN filter_loop(Tail(rest), asked_quality, quality_t, result)
         ELSE IF FlagContains(line.quality, asked_quality)
         THEN filter_loop(Tail(rest), asked_quality, quality_t, Append(result, line))
         ELSE filter_loop(Tail(rest), asked_quality, quality_t, result)

\* filter_lines_by_quality passing through for the sentinel only, not for a
\* missing flag type
filter_sentinel_only(ls, asked_quality, quality_t) ==
    IF asked_quality = ANY_QUALITY
    THEN [is_arg |-> TRUE, val |-> ls]
    ELSE [is_arg |-> FALSE, val |-> filter_loop(ls, asked_quality, quality_t, <<>>)]

\* filter_lines_by_quality. The result says whether the list returned is the
\* argument itself (is_arg: `return lines`) or a new list (`result`).
filter_lines_by_quality(ls, asked_quality, quality_t) ==
    IF asked_quality = ANY_QUALITY \/ quality_t = None
    THEN [is_arg |-> TRUE, val |-> ls]
    ELSE [is_arg |-> FALSE, val |-> filter_loop(ls, asked_quality, quality_t, <<>>)]

\* list.sort(key=meta): stable insertion of x into an ascending list.
RECURSIVE InsertAsc(_, _)
InsertAsc(x, s) ==
    IF s = <<>> THEN <<x>>
    ELSE IF x.meta < Head(s).meta THEN <<x>> \o s
    ELSE <<Head(s)>> \o InsertAsc(x, Tail(s))

RECURSIVE InsertDesc(_, _)
InsertDesc(x, s) ==
    IF s = <<>> THEN <<x>>
    ELSE IF x.meta > Head(s).meta THEN <<x>> \o s
    ELSE <<Head(s)>> \o InsertDesc(x, Tail(s))

RECURSIVE SortAsc(_)
SortAsc(s) == IF s = <<>> THEN <<>> ELSE InsertAsc(s[Len(s)], SortAsc(SubSeq(s, 1, Len(s) - 1)))

RECURSIVE SortDesc(_)
SortDesc(s) == IF s = <<>> THEN <<>> ELSE InsertDesc(s[Len(s)], SortDesc(SubSeq(s, 1, Len(s) - 1)))

\* builder.order_by: ABCPageBuilder's default returns NotImplemented;
\* SortingPageBuilder sorts a copy of the list it is given.
\* order_by without `lines.copy()`: the argument itself is sorted and returned.
order_by_in_place(builder, ls, asked_ordering) ==
    IF Sorts(builder)
    THEN [implemented |-> TRUE, in_place |-> TRUE,
          val |-> IF asked_ordering = FROM_HIGHEST THEN SortDesc(ls)
                  ELSE IF asked_ordering = FROM_LOWEST THEN SortAsc(ls)
                  ELSE ls]
    ELSE [implemented |-> FALSE, in_place |-> FALSE, val |-> <<>>]

\* order_by with `reverse=True` on the FROM_LOWEST branch instead
order_by_swapped(builder, ls, asked_ordering) ==
    IF Sorts(builder)
    THEN [implemented |-> TRUE, in_place |-> FALSE,
          val |-> IF asked_ordering = FROM_HIGHEST THEN SortAsc(ls)
                  ELSE IF asked_ordering = FROM_LOWEST THEN SortDesc(ls)
                  ELSE ls]
    ELSE [implemented |-> FALSE, in_place |-> FALSE, val |-> <<>>]

\* The result: implemented (FALSE: the NotImplemented marker), in_place (the
\* list returned is the argument itself, sorted in place) and its value.
order_by(builder, ls, asked_ordering) ==
    IF Sorts(builder)
    THEN [implemented |-> TRUE, in_place |-> FALSE,
          val |-> IF asked_ordering = FROM_HIGHEST THEN SortDesc(ls)
                  ELSE IF asked_ordering = FROM_LOWEST THEN SortAsc(ls)
                  ELSE ls]
    ELSE [implemented |-> FALSE, in_place |-> FALSE, val |-> <<>>]

\* Line 152: order_by is awaited unless the ordering asked is the sentinel.
order_by_consulted(asked_ordering) == asked_ordering # ANY_ORDERING

\* whatever order_by returns replaces filtered_lines
replaces_always(res) == TRUE

\* Line 154: `if ordered_lines is not NotImplemented`
replaces_filtered(res) == res.implemented

\* Lines 152-155: the list build_page_book goes on with after the ordering
\* step, and whether order_by was consulted.
ordered_lines(builder, filtered, asked_ordering) ==
    IF order_by_consulted(asked_ordering)
    THEN LET res == order_by(builder, filtered, asked_ordering)
         IN  [consulted |-> TRUE,
              val |-> IF replaces_filtered(res) THEN res.val ELSE filtered]
    ELSE [consulted |-> FALSE, val |-> filtered]

\* builder.build_page: None for an empty chunk, else the rendered page.
\* A page is [present, text]; present = FALSE is the absent result (None).
build_page(builder, ls) ==
    IF ls = <<>> THEN [present |-> FALSE, text |-> <<>>]
    ELSE LET text == Join(NL, [k \in 1..Len(ls) |-> ls[k].text])
         IN  IF Formats(builder)
             THEN [present |-> TRUE, text |-> BaseText \o text]
             ELSE [present |-> TRUE, text |-> BaseText \o NL \o text]

\* The page-sizing strategy settings.page_sizer_factory()(lines): consecutive
\* chunks of `size` records.
RECURSIVE page_sizer(_, _)
page_sizer(ls, size) ==
    IF ls = <<>> THEN <<>>
    ELSE << SubSeq(ls, 1, Min(size, Len(ls))) >>
         \o page_sizer(SubSeq(ls, Min(size, Len(ls)) + 1, Len(ls)), size)

\* Lines 157-162: build_page of every chunk, in chunk order.
built_pages(builder, chunks) ==
    [k \in 1..Len(chunks) |-> build_page(builder, chunks[k])]

\* the absent results kept in the page book
keep_absent(pages) == pages

\* `[page for page in page_book if page]`
drop_absent(pages) == SelectSeq(pages, LAMBDA p : p.present)

\* the average rounded up instead of down
average_rounded_up(n_lines, n_pages) ==
    n_lines \div n_pages + (IF n_lines % n_pages # 0 THEN 1 ELSE 0)

\* the average build_page_book stores
average_of(n_lines, n_pages) == n_lines \div n_pages

\* Lines 164-165: the stored average after a call that had n_lines in
\* filtered_lines and returns `book`; `old` is the average stored before.
stored_average(old, n_lines, book) ==
    IF Len(book) # 0 THEN average_of(n_lines, Len(book)) ELSE old

\* fetched_pages without the extra page for a remainder
fetched_pages_floor(ls, average_page_size) ==
    IF average_page_size = 0 THEN [known |-> FALSE, n |-> 0]
    ELSE [known |-> TRUE, n |-> Len(ls) \div average_page_size]

\* Fetcher.fetched_pages
\* The result is [known, n]; known = FALSE is the absent result (None).
fetched_pages(ls, average_page_size) ==
    IF average_page_size = 0 THEN [known |-> FALSE, n |-> 0]
    ELSE [known |-> TRUE,
          n |-> Len(ls) \div average_page_size
                + (IF Len(ls) % average_page_size # 0 THEN 1 ELSE 0)]

\* all_fetched returning the flag itself
all_fetched_not_negated(is_alive) == is_alive

\* Fetcher.all_fetched
all_fetched(is_alive) == ~is_alive

\* ------------------------------------------------------------------ state
VARIABLES
    cfg,         \* the fetcher's step, the source, the page sizer (fixed)
    lines,       \* Fetcher.lines
    alive,       \* Fetcher._iter_is_alive
    avg,         \* Fetcher._average_page_size (0: none yet)
    lockHolder,  \* the tasks holding Fetcher._iter_lock ({}: unlocked)
    waiters,     \* the lock's FIFO queue of waiting tasks
    it,          \* Fetcher._iter: [pos, sigDone, closed, busy, taken]
    pc,          \* where each task is suspended
    top,         \* the call each task is in: "none", "more", "all", "book"
    fm,          \* locals of the task's fetch_more call
    bk,          \* locals of the task's build_page_book call
    passed,      \* fetch_more calls that passed the liveness check so far
    ev,          \* what the last step called and what it returned
    fn           \* a function of the pipeline applied on its own: arguments, result

vars == <<cfg, lines, alive, avg, lockHolder, waiters, it, pc, top, fm, bk, passed, ev, fn>>

FmIdle == [i |-> 0, base |-> 0, pos0 |-> 0, left |-> 0, waited |-> FALSE]

BkIdle ==
    [builder |-> None, ordering |-> ANY_ORDERING, is_arg |-> FALSE, val |-> <<>>,
     chunks |-> <<>>, pages |-> <<>>, m |-> 0, avg0 |-> 0,
     clean |-> TRUE, solo |-> TRUE]

EvNone ==
    [task |-> 0, call |-> "none", ret |-> "none", topret |-> FALSE, top |-> "none",
     how |-> "none", exc |-> None, raised |-> FALSE, alive0 |-> TRUE,
     base |-> 0, pos0 |-> 0, pulled |-> 0, left |-> 0, waited |-> FALSE,
     flag |-> FALSE, val |-> [known |-> FALSE, n |-> 0], npages |-> 0,
     m |-> 0, avg0 |-> 0, clean |-> TRUE, solo |-> TRUE]

EvOf(t, call) == [EvNone EXCEPT !.task = t, !.call = call, !.alive0 = alive]

Sat(n) == Min(n, MaxCalls + 1)

\* A configuration: the fetcher's incremental_fetching_step, its source, the
\* chunk size of the page sizer and the builders the callers pass. Every step
\* and source is tried with the builders of the repository; the suspending
\* builder is tried with the full source that only ends.
Configs ==
    { [step |-> s, src |-> x, size |-> PageSize, builders |-> Reference] :
        s \in 1..MaxStep, x \in {y \in Sources : SourceOk(y)} }
    \cup
    { [step |-> s, src |-> [n |-> MaxItems, kind |-> StopAsyncIteration, sigAt |-> MaxItems],
       size |-> PageSize, builders |-> Builders] : s \in 1..MaxStep }

\* No function of the pipeline is applied on its own.
FnNone ==
    [op |-> "none", done |-> FALSE, ls |-> <<>>, asked |-> ANY_QUALITY, T |-> None,
     builder |-> None, ordering |-> ANY_ORDERING, chunks |-> <<>>, avg |-> 0,
     res |-> <<>>, flag |-> FALSE, val |-> [known |-> FALSE, n |-> 0]]

\* A fetcher whose buffer holds the records ls, no call under way.
Holding(ls) ==
    /\ lines = ls
    /\ alive = TRUE
    /\ avg = 0
    /\ lockHolder = {}
    /\ waiters = <<>>
    /\ it = [pos |-> 0, sigDone |-> FALSE, closed |-> FALSE, busy |-> FALSE, taken |-> 0]
    /\ pc = [t \in Tasks |-> "idle"]
    /\ top = [t \in Tasks |-> "none"]
    /\ fm = [t \in Tasks |-> FmIdle]
    /\ bk = [t \in Tasks |-> BkIdle]
    /\ passed = 0
    /\ ev = EvNone

\* Fetcher.__init__: the fetcher after construction, no call made yet.
Constructed == Holding(<<>>)

Init ==
    /\ cfg \in Configs
    /\ Constructed
    /\ fn = FnNone

\* ----------------------------------------------------------------- source
\* The generator, not running for anybody, is asked for its next item: the
\* exception raised (None: an item is yielded) and the iterator afterwards.
advance(i) ==
    IF i.closed
    THEN [exc |-> StopAsyncIteration, it |-> i]
    ELSE IF cfg.src.kind # StopAsyncIteration /\ ~i.sigDone /\ i.pos = cfg.src.sigAt
    THEN IF cfg.src.kind \in Failures
         THEN [exc |-> cfg.src.kind, it |-> [i EXCEPT !.sigDone = TRUE, !.closed = TRUE]]
         ELSE [exc |-> RuntimeError, it |-> [i EXCEPT !.sigDone = TRUE, !.busy = TRUE]]
    ELSE IF i.pos = cfg.src.n
    THEN [exc |-> StopAsyncIteration, it |-> [i EXCEPT !.closed = TRUE]]
    ELSE [exc |-> None, it |-> [i EXCEPT !.pos = i.pos + 1]]

\* The generator was running for the outside consumer: what that request can
\* have left behind once it is over. The consumer was cancelled, which closes
\* the generator; or it got the next item (or the end of the sequence, which
\* closes the generator as well).
outsider_done(i) ==
    { [i EXCEPT !.busy = FALSE, !.closed = TRUE],
      IF i.pos < cfg.src.n
      THEN [i EXCEPT !.busy = FALSE, !.pos = i.pos + 1, !.taken = i.taken + 1]
      ELSE [i EXCEPT !.busy = FALSE, !.closed = TRUE] }

\* The outcome of asking the generator in state j, not running for anybody.
asked(j) == LET a == advance(j) IN [exc |-> a.exc, it |-> a.it, pre |-> j]

\* self._iter.__anext__(): the outcomes it can have, each with the exception
\* raised (None: an item is yielded), the iterator afterwards and the iterator
\* as the request found it (pre). While the outside consumer is still waiting
\* for its item the generator is "already running" and raises RuntimeError
\* again; if that request is over, the generator is asked as it was left.
anext(i) ==
    IF i.busy /\ ~i.closed
    THEN {[exc |-> RuntimeError, it |-> i, pre |-> i]}
            \cup {asked(j) : j \in outsider_done(i)}
    ELSE {asked(i)}

\* The items the source still yields before it raises anything.
ItemsLeft(i) ==
    IF i.closed \/ i.busy THEN 0
    ELSE IF cfg.src.kind # StopAsyncIteration /\ ~i.sigDone THEN cfg.src.sigAt - i.pos
    ELSE cfg.src.n - i.pos

\* --------------------------------------------------------------- Fetcher
\* fetch_more and fetch_all without their check of the flag
live_check_skipped(is_alive) == TRUE

\* `if not self._iter_is_alive: return` and `while self._iter_is_alive`
live_check(is_alive) == is_alive

\* `range(0, step)`: as many iterations as the configured step
loop_count_full(step) == IF step > 0 THEN step ELSE 0

\* a single iteration whatever the step
loop_count_one(step) == IF step - 1 > 0 THEN 1 ELSE 0

\* `range(1, self.incremental_fetching_step)`: the iterations of the loop
loop_count(step) == IF step - 1 > 0 THEN step - 1 ELSE 0

\* `except StopAsyncIteration`
caught_stop_only == {StopAsyncIteration}

\* `except (StopAsyncIteration, RuntimeError)`: the handler takes every
\* exception that is an instance of one of the two classes.
caught == {e \in SourceKinds : e = StopAsyncIteration \/ IsRuntimeError(e)}

\* `self.lines.insert(0, elem)`
prepend_line(ls, elem) == <<elem>> \o ls

\* `self.lines.append(elem)`
append_line(ls, elem) == Append(ls, elem)

\* fetch_more without the lock: every caller enters at once
lock_ignored(holder, queue) == TRUE

\* a lock that looks at its queue of waiters only, not at its holder
lock_holder_unchecked(holder, queue) == queue = <<>>

\* asyncio.Lock.acquire returns at once iff the lock is free and nobody waits.
lock_is_free(holder, queue) == holder = {} /\ queue = <<>>

\* A task enters fetch_more's `async with self._iter_lock` (the liveness check
\* passed), the lock being held by `holder` with `queue` waiting: where the
\* task suspends next. With an empty loop the body is over at once: fetch_more
\* returns, and fetch_all calls it again without ever suspending ("spin").
Enter(t, mode, holder, queue, ls, i) ==
    IF lock_is_free(holder, queue)
    THEN IF loop_count(cfg.step) = 0
         THEN [pc |-> IF mode = "all" THEN "spin" ELSE "idle",
               holder |-> {}, waiters |-> queue, fm |-> FmIdle]
         ELSE [pc |-> "fm_pull", holder |-> holder \cup {t}, waiters |-> queue,
               fm |-> [i |-> 1, base |-> Len(ls), pos0 |-> i.pos,
                       left |-> ItemsLeft(i), waited |-> FALSE]]
    ELSE [pc |-> "fm_wait", holder |-> holder, waiters |-> Append(queue, t),
          fm |-> [FmIdle EXCEPT !.waited = TRUE]]

\* A step of fetch_more or fetch_all ran: every build_page_book call under way
\* has seen a fetch interleaved.
Touched(b) ==
    [u \in Tasks |-> IF top[u] = "book" THEN [b[u] EXCEPT !.clean = FALSE] ELSE b[u]]

\* No task keeps the event loop to itself.
NoSpin == \A t \in Tasks : pc[t] # "spin"

\* A call of fetch_more (mode "more") or fetch_all (mode "all") by an idle task.
FetchCall(t, mode) ==
    /\ NoSpin
    /\ pc[t] = "idle"
    /\ IF ~live_check(alive)
       THEN /\ ev' = [EvOf(t, mode) EXCEPT !.ret = "fetch_more", !.topret = TRUE,
                                            !.top = mode, !.how = "noop"]
            /\ UNCHANGED <<pc, top, lockHolder, waiters, fm, passed>>
       ELSE LET e == Enter(t, mode, lockHolder, waiters, lines, it) IN
            /\ pc' = [pc EXCEPT ![t] = e.pc]
            /\ top' = [top EXCEPT ![t] = IF e.pc = "idle" THEN "none" ELSE mode]
            /\ lockHolder' = e.holder
            /\ waiters' = e.waiters
            /\ fm' = [fm EXCEPT ![t] = e.fm]
            /\ passed' = Sat(passed + 1)
            /\ ev' = IF e.pc = "idle"
                     THEN [EvOf(t, mode) EXCEPT !.ret = "fetch_more", !.topret = TRUE,
                             !.top = mode, !.how = "batch", !.base = Len(lines), !.pos0 = it.pos,
                             !.left = ItemsLeft(it)]
                     ELSE EvOf(t, mode)
    /\ bk' = Touched(bk)
    /\ UNCHANGED <<fn, cfg, lines, alive, avg, it>>

fetch_more(t) == FetchCall(t, "more")

fetch_all(t) == FetchCall(t, "all")

\* The body of fetch_more is over for task t (the lock is released): the call
\* returns or raises; fetch_all then checks the flag and calls fetch_more again.
Leave(t, aliveNew, raised, linesNew, itNew, queue, e) ==
    IF top[t] = "all" /\ ~raised /\ live_check(aliveNew)
    THEN LET n == Enter(t, "all", {}, queue, linesNew, itNew) IN
         /\ pc' = [pc EXCEPT ![t] = n.pc]
         /\ top' = top
         /\ lockHolder' = n.holder
         /\ waiters' = n.waiters
         /\ fm' = [fm EXCEPT ![t] = n.fm]
         /\ passed' = Sat(passed + 1)
         /\ ev' = [e EXCEPT !.topret = FALSE, !.top = top[t]]
    ELSE /\ pc' = [pc EXCEPT ![t] = "idle"]
         /\ top' = [top EXCEPT ![t] = "none"]
         /\ lockHolder' = {}
         /\ waiters' = queue
         /\ fm' = [fm EXCEPT ![t] = FmIdle]
         /\ passed' = passed
         /\ ev' = [e EXCEPT !.topret = TRUE, !.top = top[t]]

\* The lock wakes its first waiter, which takes the lock.
LockWake(t) ==
    /\ NoSpin
    /\ pc[t] = "fm_wait"
    /\ lockHolder = {}
    /\ waiters # <<>>
    /\ Head(waiters) = t
    /\ IF loop_count(cfg.step) = 0
       THEN Leave(t, alive, FALSE, lines, it, Tail(waiters),
                  [EvOf(t, "none") EXCEPT !.ret = "fetch_more", !.how = "batch",
                     !.base = Len(lines), !.pos0 = it.pos,
                     !.left = ItemsLeft(it), !.waited = TRUE])
       ELSE /\ pc' = [pc EXCEPT ![t] = "fm_pull"]
            /\ lockHolder' = {t}
            /\ waiters' = Tail(waiters)
            /\ fm' = [fm EXCEPT ![t] = [i |-> 1, base |-> Len(lines), pos0 |-> it.pos,
                                        left |-> ItemsLeft(it), waited |-> TRUE]]
            /\ ev' = EvOf(t, "none")
            /\ UNCHANGED <<top, passed>>
    /\ bk' = Touched(bk)
    /\ UNCHANGED <<fn, cfg, lines, alive, avg, it>>


\* One iteration of fetch_more's loop by the task holding the lock:
\* `await self._iter.__anext__()` returns an item or raises.
Pull(t) ==
    /\ NoSpin
    /\ pc[t] = "fm_pull"
    /\ \E r \in anext(it) :
       LET f == IF it.busy
                THEN [fm[t] EXCEPT !.pos0 = r.pre.pos, !.left = ItemsLeft(r.pre)]
                ELSE fm[t]
           e == [EvOf(t, "none") EXCEPT !.ret = "fetch_more", !.base = f.base,
                    !.pos0 = f.pos0, !.left = f.left,
                    !.waited = f.waited, !.exc = r.exc]
       IN
       /\ it' = r.it
       /\ bk' = Touched(bk)
       /\ IF r.exc = None
          THEN LET ls == append_line(lines, Line(r.it.pos)) IN
               /\ lines' = ls
               /\ alive' = alive
               /\ IF f.i >= loop_count(cfg.step)
                  THEN Leave(t, alive, FALSE, ls, r.it, waiters,
                             [e EXCEPT !.how = "batch", !.pulled = f.i])
                  ELSE /\ fm' = [fm EXCEPT ![t] = [f EXCEPT !.i = f.i + 1]]
                       /\ ev' = EvOf(t, "none")
                       /\ UNCHANGED <<pc, top, lockHolder, waiters, passed>>
          ELSE IF r.exc \in caught
          THEN /\ alive' = FALSE
               /\ Leave(t, FALSE, FALSE, lines, r.it, waiters,
                        [e EXCEPT !.how = "signal", !.pulled = f.i - 1])
               /\ lines' = lines
          ELSE /\ Leave(t, alive, TRUE, lines, r.it, waiters,
                        [e EXCEPT !.how = "error", !.raised = TRUE,
                           !.pulled = f.i - 1])
               /\ UNCHANGED <<lines, alive>>
    /\ UNCHANGED <<fn, cfg, avg>>

\* Fetcher.all_fetched() called by an idle task.
AllFetched(t) ==
    /\ NoSpin
    /\ pc[t] = "idle"
    /\ ev' = [EvOf(0, "all_fetched") EXCEPT !.ret = "all_fetched", !.topret = TRUE,
                                             !.flag = all_fetched(alive)]
    /\ UNCHANGED <<fn, cfg, lines, alive, avg, lockHolder, waiters, it, pc, top, fm, bk, passed>>

\* Fetcher.fetched_pages read by an idle task.
FetchedPages(t) ==
    /\ NoSpin
    /\ pc[t] = "idle"
    /\ ev' = [EvOf(0, "fetched_pages") EXCEPT !.ret = "fetched_pages", !.topret = TRUE,
                                               !.val = fetched_pages(lines, avg)]
    /\ UNCHANGED <<fn, cfg, lines, alive, avg, lockHolder, waiters, it, pc, top, fm, bk, passed>>


\* ---------------------------------------------------------- RecordManager
\* The (asked_quality, quality_t) pairs and the orderings callers ask for;
\* EVEN + UNEVEN + 2 is no value of Filters.
Asked ==
    { <<ANY_QUALITY, "Filters">>, <<EVEN, None>>, <<EVEN, "Filters">>,
      <<EVEN + UNEVEN + 2, "Filters">> }
Orderings == {ANY_ORDERING, FROM_HIGHEST, FROM_LOWEST}

\* The list a build_page_book call holds as filtered_lines: the fetcher's own
\* list (is_arg) or a list of its own.
Deref(r, ls) == IF r.is_arg THEN ls ELSE r.val

\* Another build_page_book call stored an average: the calls under way have
\* seen it interleaved.
Overtaken(b, t) ==
    [u \in Tasks |-> IF u # t /\ top[u] = "book" THEN [b[u] EXCEPT !.solo = FALSE]
                     ELSE b[u]]

\* Lines 163-167: drop the absent pages, store the average, return the book.
BookDone(t, r, pages, ls, e) ==
    LET book == drop_absent(pages) IN
    /\ avg' = stored_average(avg, Len(Deref(r, ls)), book)
    /\ pc' = [pc EXCEPT ![t] = "idle"]
    /\ top' = [top EXCEPT ![t] = "none"]
    /\ bk' = IF Len(book) # 0 THEN [Overtaken(bk, t) EXCEPT ![t] = BkIdle]
             ELSE [bk EXCEPT ![t] = BkIdle]
    /\ ev' = [e EXCEPT !.task = 0, !.ret = "build_page_book", !.topret = TRUE,
                !.npages = Len(book),
                !.m = r.m, !.avg0 = r.avg0, !.clean = r.clean, !.solo = r.solo]

\* Lines 157-162: the sizer cuts filtered_lines (r, already ordered) into
\* chunks and build_page is awaited for each chunk in turn.
Sized(t, r, ls, e) ==
    LET chunks == page_sizer(Deref(r, ls), cfg.size)
        r2 == [r EXCEPT !.chunks = chunks, !.m = Len(Deref(r, ls)),
                        !.ordering = ANY_ORDERING]
    IN  IF Suspends(r.builder) /\ chunks # <<>>
        THEN /\ pc' = [pc EXCEPT ![t] = "bpb_build"]
             /\ top' = [top EXCEPT ![t] = "book"]
             /\ bk' = [bk EXCEPT ![t] = r2]
             /\ ev' = e
             /\ avg' = avg
        ELSE BookDone(t, r2, built_pages(r.builder, chunks), ls, e)

\* Lines 152-155: builder.order_by has returned `res` for the list r.
Ordered(t, r, res, e) ==
    LET ls == IF r.is_arg /\ res.implemented /\ res.in_place THEN res.val ELSE lines
        r2 == IF replaces_filtered(res)
              THEN [r EXCEPT !.is_arg = r.is_arg /\ res.in_place, !.val = res.val]
              ELSE r
    IN  /\ lines' = ls
        /\ Sized(t, r2, ls, e)

\* RecordManager.build_page_book called by an idle task, up to its first
\* suspension inside the builder (to its return with a builder that never
\* suspends).
build_page_book(t, asked_quality, asked_ordering, builder, quality_t) ==
    /\ NoSpin
    /\ pc[t] = "idle"
    /\ Suspends(builder) => Cardinality({u \in Tasks : top[u] = "book"}) < MaxSuspended
    /\ LET f == filter_lines_by_quality(lines, asked_quality, quality_t)
           r == [BkIdle EXCEPT !.builder = builder, !.ordering = asked_ordering,
                               !.is_arg = f.is_arg,
                               !.val = IF f.is_arg THEN <<>> ELSE f.val,
                               !.avg0 = avg]
           e == EvOf(t, "build_page_book")
       IN  IF order_by_consulted(asked_ordering)
           THEN IF Suspends(builder)
                THEN /\ pc' = [pc EXCEPT ![t] = "bpb_order"]
                     /\ top' = [top EXCEPT ![t] = "book"]
                     /\ bk' = [bk EXCEPT ![t] = r]
                     /\ ev' = e
                     /\ UNCHANGED <<lines, avg>>
                ELSE Ordered(t, r, order_by(builder, Deref(r, lines), asked_ordering), e)
           ELSE /\ lines' = lines
                /\ Sized(t, r, lines, e)
    /\ UNCHANGED <<fn, cfg, alive, lockHolder, waiters, it, fm, passed>>

\* The suspended builder.order_by resumes and returns.
BookOrdered(t) ==
    /\ NoSpin
    /\ pc[t] = "bpb_order"
    /\ Ordered(t, bk[t], order_by(bk[t].builder, Deref(bk[t], lines), bk[t].ordering),
               EvOf(t, "none"))
    /\ UNCHANGED <<fn, cfg, alive, lockHolder, waiters, it, fm, passed>>

\* The suspended builder.build_page of the next chunk resumes and returns.
BookPage(t) ==
    /\ NoSpin
    /\ pc[t] = "bpb_build"
    /\ LET r == bk[t]
           k == Len(r.pages) + 1
           pages == Append(r.pages, build_page(r.builder, r.chunks[k]))
       IN  IF k = Len(r.chunks)
           THEN BookDone(t, r, pages, lines, EvOf(t, "none"))
           ELSE /\ bk' = [bk EXCEPT ![t].pages = pages]
                /\ ev' = EvOf(t, "none")
                /\ UNCHANGED <<avg, pc, top>>
    /\ UNCHANGED <<fn, cfg, lines, alive, lockHolder, waiters, it, fm, passed>>

\* ---------------------------------------------------------- specification
Next ==
    \/ \E t \in Tasks : fetch_more(t)
    \/ \E t \in Tasks : fetch_all(t)
    \/ \E t \in Tasks : LockWake(t)
    \/ \E t \in Tasks : Pull(t)
    \/ \E t \in Tasks : AllFetched(t)
    \/ \E t \in Tasks : FetchedPages(t)
    \/ \E t \in Tasks, a \in Asked, o \in Orderings, b \in cfg.builders :
          build_page_book(t, a[1], o, b, a[2])
    \/ \E t \in Tasks : BookOrdered(t)
    \/ \E t \in Tasks : BookPage(t)

Spec == Init /\ [][Next]_vars


\* ------------------------------------- the pipeline's functions on their own
\* Line(text=str(i), quality=q, meta=m) of structs.py
LineOf(i, q, m) == [text |-> Str(i), quality |-> q, meta |-> m]

\* The sequences of at most MaxLen elements of S.
SeqsUpTo(S) == UNION { [1..k -> S] : k \in 0..MaxLen }

\* Record qualities tried: no flag, EVEN, UNEVEN, both, and a value with a bit
\* that is no member of Filters. Qualities asked: the same, and the bit 1.
RecordQualities == {0, EVEN, UNEVEN, EVEN + UNEVEN, 2 * UNEVEN}
AskedQualities == RecordQualities \cup {1}

\* Orderings asked: the sentinel, the two of Sorting, and one Sorting lacks.
AskedOrderings == {ANY_ORDERING, FROM_HIGHEST, FROM_LOWEST, 2 * FROM_LOWEST}

\* The i-th record of a list carries its position as text.
WithQualities(qs) == [k \in 1..Len(qs) |-> LineOf(k, qs[k], k)]
WithMetas(ms) == [k \in 1..Len(ms) |-> LineOf(k, EVEN, ms[k])]

\* Chunks of the given lengths, cut from Line(1), Line(2), ...
RECURSIVE ChunksOf(_, _)
ChunksOf(lens, from) ==
    IF lens = <<>> THEN <<>>
    ELSE << [k \in 1..Head(lens) |-> Line(from + k)] >>
         \o ChunksOf(Tail(lens), from + Head(lens))

\* The arguments the functions are applied to.
FnInputs ==
    { [FnNone EXCEPT !.op = "filter", !.ls = WithQualities(qs), !.asked = a, !.T = T] :
        qs \in SeqsUpTo(RecordQualities), a \in AskedQualities,
        T \in FlagTypes \cup {None} }
    \cup
    { [FnNone EXCEPT !.op = "fetched_pages", !.ls = [k \in 1..n |-> Line(k)], !.avg = a] :
        n \in 0..(2 * MaxLen), a \in 0..MaxLen }
    \cup
    { [FnNone EXCEPT !.op = "order", !.ls = WithMetas(ms), !.builder = b, !.ordering = o] :
        ms \in SeqsUpTo(1..MaxLen), b \in Reference, o \in AskedOrderings }
    \cup
    { [FnNone EXCEPT !.op = "pages", !.chunks = ChunksOf(lens, 0), !.builder = b] :
        lens \in SeqsUpTo(0..PageSize), b \in Reference }

fetcher_vars ==
    <<cfg, lines, alive, avg, lockHolder, waiters, it, pc, top, fm, bk, passed, ev>>

\* All of the fetcher but the stored average.
fetcher_but_avg ==
    <<cfg, lines, alive, lockHolder, waiters, it, pc, top, fm, bk, passed, ev>>

\* The records of all chunks, in chunk order.
RECURSIVE Flatten(_)
Flatten(chunks) == IF chunks = <<>> THEN <<>> ELSE Head(chunks) \o Flatten(Tail(chunks))

\* The buffer of the fetcher a build_page_book call is made on: the records
\* to order, or the records the page sizer cuts into the chunks given.
BufferOf(f) ==
    IF f.op = "order" THEN f.ls
    ELSE IF f.op = "pages" THEN Flatten(f.chunks)
    ELSE <<>>

InitFn ==
    /\ cfg = [step |-> MaxStep,
              src |-> [n |-> 0, kind |-> StopAsyncIteration, sigAt |-> 0],
              size |-> PageSize, builders |-> Reference]
    /\ fn \in FnInputs
    /\ Holding(BufferOf(fn))

\* filter_lines_by_quality(lines, asked_quality, quality_t)
FilterLines ==
    /\ fn.op = "filter" /\ ~fn.done
    /\ LET f == filter_lines_by_quality(fn.ls, fn.asked, fn.T)
       IN  fn' = [fn EXCEPT !.done = TRUE, !.res = f.val, !.flag = f.is_arg]
    /\ UNCHANGED fetcher_vars

\* Fetcher.fetched_pages on a buffer fn.ls with the stored average fn.avg
FetchedPagesOf ==
    /\ fn.op = "fetched_pages" /\ ~fn.done
    /\ fn' = [fn EXCEPT !.done = TRUE, !.val = fetched_pages(fn.ls, fn.avg)]
    /\ UNCHANGED fetcher_vars

\* build_page_book(ANY_QUALITY, fn.ordering, fn.builder) on the fetcher, with a
\* builder that does not suspend: the filter passes the buffer through, the
\* ordering step, the page sizer, the pages, the stored average.
OrderLines ==
    /\ fn.op = "order" /\ ~fn.done
    /\ LET f == filter_lines_by_quality(lines, ANY_QUALITY, None)
           o == ordered_lines(fn.builder, f.val, fn.ordering)
           chunks == page_sizer(o.val, cfg.size)
           book == drop_absent(built_pages(fn.builder, chunks))
       IN  /\ fn' = [fn EXCEPT !.done = TRUE, !.res = o.val, !.flag = o.consulted,
                               !.chunks = chunks,
                               !.val = [known |-> TRUE, n |-> Len(book)]]
           /\ avg' = stored_average(avg, Len(o.val), book)
    /\ UNCHANGED fetcher_but_avg

\* build_page_book(ANY_QUALITY, ANY_ORDERING, fn.builder) on the fetcher, with
\* a page sizer that returns the chunks fn.chunks: the pages of the chunks,
\* the absent ones dropped, and the stored average.
BuildPages ==
    /\ fn.op = "pages" /\ ~fn.done
    /\ LET f == filter_lines_by_quality(lines, ANY_QUALITY, None)
           book == drop_absent(built_pages(fn.builder, fn.chunks))
       IN  /\ fn' = [fn EXCEPT !.done = TRUE, !.res = book,
                               !.val = [known |-> TRUE, n |-> Len(book)]]
           /\ avg' = stored_average(avg, Len(f.val), book)
    /\ UNCHANGED fetcher_but_avg

NextFn ==
    \/ FilterLines
    \/ FetchedPagesOf
    \/ OrderLines
    \/ BuildPages

SpecFn == InitFn /\ [][NextFn]_vars

\* ------------------------------------------------------------- properties
IsPrefix(a, b) == Len(a) <= Len(b) /\ SubSeq(b, 1, Len(a)) = a

\* The tasks inside a fetch_more call (waiting for the lock, pulling, or
\* spinning in fetch_all).
InFlight == {t \in Tasks : pc[t] \in {"fm_wait", "fm_pull", "spin"}}

\* The tasks between acquiring the lock and releasing it.
InLock == {t \in Tasks : pc[t] = "fm_pull"}

\* The items the source yields before it first raises anything.
Available == IF cfg.src.kind = StopAsyncIteration THEN cfg.src.n ELSE cfg.src.sigAt

\* Everything the source produces, in source order.
Produced == [k \in 1..cfg.src.n |-> Line(k)]

\* C1: the record buffer only grows by appending: in every step of fetch_more,
\* fetch_all and build_page_book, under any interleaving, the buffer before the
\* step is a prefix of the buffer after it.
C1_BufferOnlyGrows == [][IsPrefix(lines, lines')]_vars

\* C1 witness: a build_page_book call is suspended on chunks of a reordered
\* copy of the buffer while fetch_more appends more records.
C1_Witness ==
    \E t, u \in Tasks :
        /\ pc[t] = "bpb_build"
        /\ bk[t].chunks[1][1] # lines[1]
        /\ pc[u] = "fm_pull"
        /\ Len(lines) > bk[t].m

\* C2: alive starts true; once false no step makes it true again; all_fetched()
\* returns the negation of alive.
C2_AliveTerminal ==
    /\ alive = TRUE
    /\ [][ /\ ~alive => ~alive'
           /\ ev'.ret = "all_fetched" => ev'.flag = ~alive' ]_vars

\* C2 witness: all_fetched() returned true on an exhausted fetcher that holds
\* records and a stored average.
C2_Witness ==
    ev.ret = "all_fetched" /\ ev.flag /\ ~alive /\ Len(lines) > 0 /\ avg > 0

\* C3: a call of fetch_more or fetch_all made when the flag is already false
\* returns in the same step and leaves the buffer, the flag, the stored average,
\* the source and the lock as they were.
C3_FetchAfterExhaustionNoOp ==
    [][ (ev'.call \in {"more", "all"} /\ ~alive)
          => /\ ev'.how = "noop" /\ ev'.topret
             /\ UNCHANGED <<lines, alive, avg, it, lockHolder, waiters, pc>> ]_vars

\* C3 witness: fetch_all was called on an exhausted fetcher holding records and
\* returned at once.
C3_Witness ==
    ev.call = "all" /\ ev.how = "noop" /\ ~alive /\ Len(lines) > 0 /\ avg > 0

\* C4: at most one fetch_more call is between acquiring the lock and releasing
\* it, and that call is the lock's holder.
C4_MutualExclusion ==
    /\ Cardinality(InLock) <= 1
    /\ \A t \in InLock : lockHolder = {t}

\* C4 witness: one call is advancing the source while another waits for the
\* lock.
C4_Witness ==
    \E t, u \in Tasks : pc[t] = "fm_pull" /\ pc[u] = "fm_wait" /\ fm[t].i > 1

\* C5: when every fetch_more call that passed the liveness check has returned
\* and the source held enough items for a full batch each, the buffer has grown
\* by one full batch per call.
C5_NoCoalescing ==
    (/\ InFlight = {}
     /\ passed <= MaxCalls
     /\ passed * (cfg.step - 1) <= Available)
        => Len(lines) = passed * (cfg.step - 1)

\* C5 witness: two calls, one of which waited for the lock held by the other,
\* have both returned and the buffer holds two batches.
C5_Witness ==
    /\ InFlight = {}
    /\ passed = 2
    /\ cfg.step >= 2
    /\ ev.ret = "fetch_more" /\ ev.waited /\ ev.how = "batch"
    /\ Len(lines) = 2 * (cfg.step - 1)

\* C6: when the source raises StopAsyncIteration or RuntimeError in a fetch_more
\* call, the call returns normally, alive is false, and the records pulled
\* earlier in that call are in the buffer.
C6_ExhaustionSwallowed ==
    (ev.ret = "fetch_more" /\ ev.exc \in {StopAsyncIteration, RuntimeError})
        => /\ ~ev.raised
           /\ ~alive
           /\ Len(lines) = ev.base + ev.pulled
           /\ \A j \in 1..ev.pulled : lines[ev.base + j] = Line(ev.pos0 + j)

\* C6 witness: the reentrancy RuntimeError ended a call that had already pulled
\* a record.
C6_Witness ==
    ev.ret = "fetch_more" /\ ev.exc = RuntimeError /\ ev.pulled >= 1 /\ ~alive

\* C7: any failure the source raises other than the end-of-sequence signal
\* and the reentrancy signal propagates to the caller of fetch_more (and of
\* fetch_all) and leaves alive as it was.
C7_Original ==
    (ev.ret = "fetch_more" /\ ev.exc \in Failures)
        => ev.raised /\ ev.topret /\ alive = ev.alive0

\* C7 witness: the source's body failed with a RuntimeError of its own inside
\* a fetch_all that had pulled a record; the call returned normally and the
\* fetcher, alive before, is marked exhausted.
C7_Witness ==
    /\ ev.ret = "fetch_more" /\ ev.exc = SourceRuntimeError /\ ev.top = "all"
    /\ ~ev.raised /\ ev.pulled >= 1 /\ ev.alive0 /\ ~alive

\* A failure of the source that is not a RuntimeError propagates to the caller
\* of fetch_more (and of fetch_all) and leaves alive as it was.
NonRuntimeFailurePropagates ==
    (ev.ret = "fetch_more" /\ ev.exc = OtherError)
        => ev.raised /\ ev.topret /\ alive = ev.alive0

\* C8: a fetch_more call that passed the liveness check appends exactly
\* min(B - 1, items left in the source) records, and fewer than B.
C8_BatchIsStepMinusOne ==
    (ev.ret = "fetch_more" /\ ev.how # "noop")
        => /\ ev.pulled = Min(cfg.step - 1, ev.left)
           /\ Len(lines) = ev.base + ev.pulled
           /\ ev.pulled < cfg.step

\* C8 witness: a call with step 3 returned after a full batch of 2 records
\* while the source held more.
C8_Witness ==
    /\ ev.ret = "fetch_more" /\ ev.how = "batch"
    /\ cfg.step = 3 /\ ev.pulled = 2 /\ ev.left > 2

\* C9: when fetch_all returns on a fetcher whose source only ends, alive is
\* false and the buffer is the whole sequence the source produces, in order.
C9_FetchAllFetchesEverything ==
    (/\ ev.ret = "fetch_more" /\ ev.top = "all" /\ ev.topret /\ ~ev.raised
     /\ cfg.src.kind = StopAsyncIteration)
        => ~alive /\ lines = Produced

\* C9 witness: fetch_all returned after waiting for the lock, the buffer
\* holding all MaxItems records of the source.
C9_Witness ==
    /\ ev.ret = "fetch_more" /\ ev.top = "all" /\ ev.topret /\ ev.waited
    /\ cfg.src.kind = StopAsyncIteration /\ cfg.src.n = MaxItems
    /\ Len(lines) = MaxItems /\ cfg.step = 2

\* C10 as stated: after a build_page_book call with no fetch_more interleaved,
\* an empty book leaves the stored average at its value before the call, and a
\* book of N > 0 pages from M records leaves it at M \div N.
C10_Original ==
    (ev.ret = "build_page_book" /\ ev.clean)
        => IF ev.npages = 0 THEN avg = ev.avg0 ELSE avg = ev.m \div ev.npages

\* C10 amended: the same, the empty-book case holding when no other
\* build_page_book call stored an average between the call and its return.
C10_Amended ==
    (ev.ret = "build_page_book" /\ ev.clean)
        => /\ (ev.npages = 0 /\ ev.solo) => avg = ev.avg0
           /\ ev.npages > 0 => avg = ev.m \div ev.npages

\* C10 witness: a call returned 2 pages built from 3 records and the stored
\* average is 1.
C10_Witness ==
    ev.ret = "build_page_book" /\ ev.clean /\ ev.npages = 2 /\ ev.m = 3 /\ avg = 1

\* C11: build_page_book never hands the fetcher's own list to the builder or to
\* the page sizer: whenever a call is suspended inside builder.order_by or
\* builder.build_page, the list it filtered (and had chunked) is a copy.
C11_Original ==
    \A t \in Tasks : pc[t] \in {"bpb_order", "bpb_build"} => ~bk[t].is_arg

\* The bits set in x, and the bits of the members of a flag type.
BitsOf(x) == {b \in {1, 2, 4, 8, 16} : (x \div b) % 2 = 1}
MemberBits(T) == IF T = "Filters" THEN {EVEN, UNEVEN} ELSE {}

\* C12: for an asked quality X other than ANY_QUALITY and a flag type T,
\* filter_lines_by_quality returns the subsequence of its input, in input
\* order, of the records R such that X and R's quality are both valid under T
\* and every bit of X is set in R's quality; invalid values exclude, never raise.
C12_FilterCorrect ==
    (fn.op = "filter" /\ fn.done /\ fn.asked # ANY_QUALITY /\ fn.T # None)
        => /\ ~fn.flag
           /\ fn.res = SelectSeq(fn.ls, LAMBDA R :
                          /\ BitsOf(fn.asked) \subseteq MemberBits(fn.T)
                          /\ BitsOf(R.quality) \subseteq MemberBits(fn.T)
                          /\ BitsOf(fn.asked) \subseteq BitsOf(R.quality))

\* C12 witness: EVEN asked of three records, the second of an invalid quality,
\* the third EVEN and UNEVEN: the first and the third are returned in order.
C12_Witness ==
    /\ fn.op = "filter" /\ fn.done /\ fn.asked = EVEN /\ fn.T = "Filters"
    /\ Len(fn.ls) = 3
    /\ fn.ls[1].quality = EVEN /\ fn.ls[2].quality = 2 * UNEVEN
    /\ fn.ls[3].quality = EVEN + UNEVEN
    /\ fn.res = <<fn.ls[1], fn.ls[3]>>

\* C13: with the ANY_QUALITY sentinel, or with no flag type whatever the
\* quality asked, filter_lines_by_quality returns exactly its input.
C13_PassThrough ==
    (fn.op = "filter" /\ fn.done /\ (fn.asked = ANY_QUALITY \/ fn.T = None))
        => fn.res = fn.ls

\* C13 witness: no flag type, an asked quality that is no valid flag value, and
\* three records of which one has an invalid quality: all three are returned.
C13_Witness ==
    /\ fn.op = "filter" /\ fn.done /\ fn.T = None /\ fn.asked = 2 * UNEVEN
    /\ Len(fn.ls) = 3 /\ fn.ls[2].quality = 2 * UNEVEN /\ fn.ls[1].quality = UNEVEN
    /\ fn.res = fn.ls

\* C14: fetched_pages is absent when no average is known (0), and otherwise
\* the least n with n * average >= len(records): ceil(len / average).
C14_FetchedPagesCeil ==
    (fn.op = "fetched_pages" /\ fn.done)
        => IF fn.avg = 0 THEN ~fn.val.known
           ELSE /\ fn.val.known
                /\ fn.val.n * fn.avg >= Len(fn.ls)
                /\ (fn.val.n - 1) * fn.avg < Len(fn.ls)
                /\ (Len(fn.ls) = 0 => fn.val.n = 0)

\* C14 witness: five records at an average of two per page are three pages.
C14_Witness ==
    /\ fn.op = "fetched_pages" /\ fn.done
    /\ Len(fn.ls) = 5 /\ fn.avg = 2 /\ fn.val.known /\ fn.val.n = 3

\* s holds the records of r (which are distinct), in some order.
Rearranged(s, r) ==
    Len(s) = Len(r) /\ {s[k] : k \in 1..Len(s)} = {r[k] : k \in 1..Len(r)}

\* s is ordered by meta, descending or ascending.
Descending(s) == \A k \in 1..(Len(s) - 1) : s[k].meta >= s[k + 1].meta
Ascending(s) == \A k \in 1..(Len(s) - 1) : s[k].meta <= s[k + 1].meta

\* C15: the page book holds one page per non-empty chunk of the page sizer, in
\* chunk order: build_page of a reference builder is absent exactly for an
\* empty chunk, and the absent results are dropped.
C15_OnePagePerNonEmptyChunk ==
    (fn.op = "pages" /\ fn.done)
        => LET filled == SelectSeq(fn.chunks, LAMBDA c : c # <<>>) IN
           /\ \A k \in 1..Len(fn.chunks) :
                 build_page(fn.builder, fn.chunks[k]).present <=> fn.chunks[k] # <<>>
           /\ Len(fn.res) = Len(filled)
           /\ \A k \in 1..Len(filled) :
                 /\ fn.res[k].present
                 /\ fn.res[k] = build_page(fn.builder, filled[k])

\* C15 witness: of three chunks the middle one is empty; the book holds the
\* pages of the first and the third, which differ, in that order.
C15_Witness ==
    /\ fn.op = "pages" /\ fn.done /\ fn.builder = "Formatting"
    /\ Len(fn.chunks) = 3
    /\ fn.chunks[1] # <<>> /\ fn.chunks[2] = <<>> /\ Len(fn.chunks[3]) = 2
    /\ Len(fn.res) = 2
    /\ fn.res[1] # fn.res[2]
    /\ fn.res[2] = build_page("Formatting", fn.chunks[3])

\* C16: with ANY_ORDERING order_by is not consulted; with another ordering and
\* a builder that keeps the default order_by (NotImplemented) the records are
\* chunked in the filtered order; a list that order_by returns replaces the
\* filtered list.
C16_OrderingSentinel ==
    (fn.op = "order" /\ fn.done)
        => /\ fn.ordering = ANY_ORDERING
                => ~fn.flag /\ fn.res = fn.ls /\ Flatten(fn.chunks) = fn.ls
           /\ (fn.ordering # ANY_ORDERING /\ ~Sorts(fn.builder))
                => fn.flag /\ fn.res = fn.ls /\ Flatten(fn.chunks) = fn.ls
           /\ (fn.ordering # ANY_ORDERING /\ Sorts(fn.builder))
                => /\ fn.flag
                   /\ Flatten(fn.chunks) = fn.res
                   /\ Rearranged(fn.res, fn.ls)
                   /\ fn.ordering = FROM_HIGHEST => Descending(fn.res)
                   /\ fn.ordering = FROM_LOWEST => Ascending(fn.res)
                   /\ fn.ordering \notin {FROM_HIGHEST, FROM_LOWEST} => fn.res = fn.ls

\* C16 witness: FROM_HIGHEST asked of a builder without order_by on records
\* that are not in descending order: they are chunked as they were.
C16_Witness ==
    /\ fn.op = "order" /\ fn.done /\ fn.builder = "Naive" /\ fn.ordering = FROM_HIGHEST
    /\ Len(fn.ls) = 3 /\ ~Descending(fn.ls)
    /\ fn.flag /\ fn.res = fn.ls
    /\ Len(fn.chunks) = 2

\* ------------------------------------------------- the example end to end
\* The fetcher of the example on filtering_fetcher cut to 1..N for every N up
\* to MaxRange, with the example's SortingPageBuilder (and its suspending
\* variant), under the same operations.
InitE2E ==
    /\ cfg \in { [step |-> MaxStep,
                  src |-> [n |-> N, kind |-> StopAsyncIteration, sigAt |-> N],
                  size |-> PageSize, builders |-> {"Sorting", "Awaiting"}] :
                 N \in 0..MaxRange }
    /\ Constructed
    /\ fn = FnNone

SpecE2E == InitE2E /\ [][Next]_vars

\* C17: once the source 1..N is exhausted (fetch_all has returned), the buffer
\* is 1..N in source order with EVEN on the even and UNEVEN on the odd values;
\* the records selected by EVEN are the N \div 2 even ones in ascending order;
\* the sorting builder orders them from the largest even value down to 2 for
\* FROM_HIGHEST and ascending for FROM_LOWEST.
C17_EndToEnd ==
    ~alive =>
        LET N == cfg.src.n
            half == N \div 2
            sel == filter_lines_by_quality(lines, EVEN, "Filters").val
            hi == ordered_lines("Sorting", sel, FROM_HIGHEST).val
            lo == ordered_lines("Sorting", sel, FROM_LOWEST).val
        IN  /\ Len(lines) = N
            /\ \A k \in 1..N :
                  /\ lines[k].meta = k
                  /\ lines[k].quality = IF k % 2 = 0 THEN EVEN ELSE UNEVEN
            /\ Len(sel) = half
            /\ \A k \in 1..half : sel[k] = lines[2 * k]
            /\ Len(hi) = half
            /\ \A k \in 1..half : hi[k] = lines[2 * (half - k + 1)]
            /\ half > 0 => hi[1].meta = 2 * half /\ hi[half].meta = 2
            /\ lo = sel

\* C17 witness: fetch_all has exhausted 1..MaxRange, and a build_page_book call
\* made afterwards with the suspending sorting builder holds the even records
\* from the largest down to 2, more than one of them.
C17_Witness ==
    /\ ~alive /\ cfg.src.n = MaxRange
    /\ ev.ret = "none"
    /\ \E t \in Tasks :
          /\ pc[t] = "bpb_build" /\ bk[t].clean /\ ~bk[t].is_arg
          /\ Len(bk[t].val) = MaxRange \div 2 /\ Len(bk[t].val) > 1
          /\ bk[t].val[1].meta = 2 * (MaxRange \div 2)
          /\ bk[t].val[Len(bk[t].val)].meta = 2

\* C18: when fetch_more appends records while a build_page_book call is
\* suspended inside the builder, the average the call stores is still
\* (number of records it filtered and chunked) \div (number of pages),
\* whatever the quality asked.
C18_Original ==
    (ev.ret = "build_page_book" /\ ev.npages > 0)
        => avg = ev.m \div ev.npages

\* ----------------------------------------------------- fair scheduling
\* The event loop runs every task that is ready: a task woken by the lock takes
\* it, and an awaited __anext__ of the source completes.
Fairness == \A t \in Tasks : WF_vars(LockWake(t)) /\ WF_vars(Pull(t))

FairSpec == Spec /\ Fairness

\* C19: for a source that ends and every step of 1 or more, a fetch_all call
\* eventually returns with alive false (the lock and the source being
\* scheduled fairly).
C19_Original ==
    \A t \in Tasks :
        (top[t] = "all" /\ cfg.src.kind = StopAsyncIteration)
            ~> (top[t] # "all" /\ ~alive)

YieldedToFetcher ==
    SelectSeq(SubSeq(Produced, 1, it.pos),
              LAMBDA x : ~(it.taken = 1 /\ x = Line(cfg.src.sigAt + 1)))

====
